---- MODULE Spec2Model ----
(***************************************************************************)
(* The CameraPredictor component (src/unnamed/part_001, the revision with  *)
(* rafRef, try/catch disposal and retryLoad) as a state machine.           *)
(*                                                                         *)
(* React state (model, running, preds, errMsg, stream) is committed after  *)
(* every handler; a handler invoked by the user reads the committed        *)
(* values.  A function object created in one render keeps the values of    *)
(* that render: predictLoop is handed to requestAnimationFrame by          *)
(* startCamera (and by itself), so the callback that later runs reads the  *)
(* `running` and `model` of the render in which start() was called.  The   *)
(* model carries those captured values with every pending call, callback   *)
(* and suspended iteration as the record c.  Refs (rafRef, videoRef) are   *)
(* shared cells and are read live.                                         *)
(*                                                                         *)
(* Spec is the controller: start, stop, the animation-frame loop and the   *)
(* model loads.  Three further specifications apply code that the          *)
(* controller never reaches, or that does not touch its state, to bounded  *)
(* inputs: SpecRank the ranking expression of predictLoop, SpecPreprocess  *)
(* its tensor construction, SpecFeedback sendCorrection together with the  *)
(* handler of /api/log-example (src/unnamed/part_002).                     *)
(***************************************************************************)
EXTENDS Naturals, FiniteSets, Sequences, Bags

\* ---------------------------------------------------------------- bounds
\* asynchronous operations suspended at the same time: startCamera() calls
\* awaiting getUserMedia() or play(), and model loads not yet settled
MaxPending == 3
\* distinct MediaStream objects alive or referenced at the same time
MaxStreams == 2
\* classes of the output vector handed to the ranking
MaxLen == 6
\* feedback requests sent, answered or not
MaxFeedback == 2

NULL == 0

VARIABLES
  model,       \* useState(null): NoModel or the loaded handle
  running,     \* useState(false)
  preds,       \* useState([]): sequence of predictions
  errMsg,      \* useState(null): "none" or the kind of the message shown
  stream,      \* useState(null): NULL or a stream id
  rafRef,      \* rafRef.current: NULL or a requestAnimationFrame handle
  rafQueue,    \* browser: pending animation-frame callbacks [id, c]
  video,       \* the <video> element: [srcObject, paused, ready]
  liveStreams, \* browser: acquired streams whose tracks are not stopped
  starts,      \* bag of the startCamera() calls suspended at an await
  loads,       \* bag of the tf.loadLayersModel() promises not yet settled
  smallCanvas, \* stream whose frame was last drawn on the 28x28 canvas
  previewCanvas, \* stream whose frame was last drawn on the preview canvas
  inflight,    \* predictLoop iterations suspended at `await data()`
  tensors,     \* number of live tensors created by predictLoop
  mounted,     \* the component is mounted (its cleanup has not run)
  sinceStop,   \* history: stop() returned and start() was not called since
  last,        \* history: the handler step taken last
  probsArr,    \* ranking: the probability vector read from the output tensor
  top,         \* ranking: the value of `top`, the ranked predictions
  pixels,      \* preprocessing: the image data of the 28x28 canvas
  invert,      \* preprocessing: whether the caller wants the tile inverted
  tensor,      \* preprocessing: the value of `tensor`, [shape, data]
  fetches,     \* feedback: bag of the requests to /api/log-example in flight
  alerts       \* feedback: the alert() messages shown, oldest first

reactState == <<model, running, preds, errMsg, stream>>
browser == <<rafQueue, video, liveStreams, starts, loads>>
canvases == <<smallCanvas, previewCanvas>>
pipeline == <<inflight, tensors>>
\* The component's controller, and the values the three units below work on:
\* the ranking expression, the tensor construction, the feedback exchange.
component == <<model, running, preds, errMsg, stream, rafRef, rafQueue, video,
               liveStreams, starts, loads, smallCanvas, previewCanvas,
               inflight, tensors, mounted, sinceStop>>
ranker == <<probsArr, top>>
preprocessor == <<pixels, invert, tensor>>
reporter == <<fetches, alerts>>
units == <<probsArr, top, pixels, invert, tensor, fetches, alerts>>
vars == <<model, running, preds, errMsg, stream, rafRef, rafQueue, video,
          liveStreams, starts, loads, smallCanvas, previewCanvas,
          inflight, tensors, mounted, sinceStop, last,
          probsArr, top, pixels, invert, tensor, fetches, alerts>>

\* ---------------------------------------------------------------- helpers
\* The values a function created in the current render has captured.
Closure == [running |-> running, model |-> model]

Min(S) == CHOOSE x \in S : \A y \in S : x <= y

\* Handles returned by requestAnimationFrame are never reused while some
\* reference to them is alive; only equality of handles is observable.
UsedRaf == {rafRef} \cup {h.id : h \in rafQueue}
FreshRaf == Min((1..(Cardinality(UsedRaf) + 1)) \ UsedRaf)

UsedStreams == {stream, video.srcObject} \cup liveStreams
                 \cup {smallCanvas, previewCanvas}
FreeStreams == (1..MaxStreams) \ UsedStreams

\* A model handle is told from the others only by the load that produced
\* it: the load requested last ("latest") or an earlier one ("older").
NoModel == "none"
Older(m) == IF m = "latest" THEN "older" ELSE m

RECURSIVE SumCopies(_, _)
SumCopies(B, S) ==
  IF S = {} THEN 0
  ELSE LET e == CHOOSE x \in S : TRUE
       IN B[e] + SumCopies(B, S \ {e})

\* The bag of the images f[e] of the elements of bag B.
BagMap(B, f) ==
  [t \in {f[e] : e \in DOMAIN B} |-> SumCopies(B, {e \in DOMAIN B : f[e] = t})]

\* requestAnimationFrame(predictLoop) called from a function whose captured
\* values are c: the new handle and the queue with the callback added.
RequestFrame(id, c) == rafQueue \cup {[id |-> id, c |-> c]}

\* cancelAnimationFrame(id): a no-op for a handle that is not pending.
CancelFrame(id) == {h \in rafQueue : h.id # id}

\* Assigning video.srcObject runs the media element load algorithm and
\* pause() runs the pause steps: both reject the pending play() promises.
Aborted(s) == IF s.phase = "play" THEN [s EXCEPT !.aborted = TRUE] ELSE s
AbortPlays == BagMap(starts, [s \in DOMAIN starts |-> Aborted(s)])

\* The asynchronous operations that have not settled.
Pending == BagCardinality(starts) + BagCardinality(loads)

\* One more, one fewer suspended call in a bag of calls.
WithCall(B, s) == B (+) SetToBag({s})
WithoutCall(B, s) == B (-) SetToBag({s})

\* ---------------------------------------------------------------- Init
\* The state after the first render and the mount effect: loadModel() has
\* called setErrMsg(null) and is awaiting tf.loadLayersModel().
\* The component mounted with predictions left in its state.
Mounted_StalePreds ==
  /\ model = NoModel
  /\ running = FALSE
  /\ preds = <<[index |-> 0, letter |-> 65, p |-> 10],
               [index |-> 0, letter |-> 65, p |-> 70]>>
  /\ errMsg = "none"
  /\ stream = NULL
  /\ rafRef = NULL
  /\ rafQueue = {}
  /\ video = [srcObject |-> NULL, paused |-> TRUE, ready |-> FALSE]
  /\ liveStreams = {}
  /\ starts = EmptyBag
  /\ loads = SetToBag({[handle |-> "latest", kind |-> "mount"]})
  /\ smallCanvas = NULL
  /\ previewCanvas = NULL
  /\ inflight = {}
  /\ tensors = 0
  /\ mounted = TRUE
  /\ sinceStop = FALSE
  /\ last = "mount"

Mounted ==
  /\ model = NoModel
  /\ running = FALSE
  /\ preds = <<>>
  /\ errMsg = "none"
  /\ stream = NULL
  /\ rafRef = NULL
  /\ rafQueue = {}
  /\ video = [srcObject |-> NULL, paused |-> TRUE, ready |-> FALSE]
  /\ liveStreams = {}
  /\ starts = EmptyBag
  /\ loads = SetToBag({[handle |-> "latest", kind |-> "mount"]})
  /\ smallCanvas = NULL
  /\ previewCanvas = NULL
  /\ inflight = {}
  /\ tensors = 0
  /\ mounted = TRUE
  /\ sinceStop = FALSE
  /\ last = "mount"

\* Nothing ranked, no tensor built, no feedback sent.
RankerIdle == probsArr = <<>> /\ top = <<>>
PreprocessorIdle ==
  /\ pixels = <<>>
  /\ invert = FALSE
  /\ tensor = [shape |-> <<>>, data |-> <<>>]
ReporterIdle == fetches = EmptyBag /\ alerts = <<>>

Init == Mounted /\ RankerIdle /\ PreprocessorIdle /\ ReporterIdle

\* ---------------------------------------------------------------- ranking
\* Array.prototype.sort is stable: an element moves in front of the ones
\* that compare strictly after it and stays behind its equals.
\* A sort that moves an element in front of its equals.
RECURSIVE InsertSorted_Unstable(_, _)
InsertSorted_Unstable(x, s) ==
  IF s = <<>> THEN <<x>>
  ELSE IF Head(s).p <= x.p THEN <<x>> \o s
  ELSE <<Head(s)>> \o InsertSorted_Unstable(x, Tail(s))

RECURSIVE InsertSorted(_, _)
InsertSorted(x, s) ==
  IF s = <<>> THEN <<x>>
  ELSE IF Head(s).p < x.p THEN <<x>> \o s
  ELSE <<Head(s)>> \o InsertSorted(x, Tail(s))

RECURSIVE SortDesc(_)
SortDesc(s) ==
  IF s = <<>> THEN <<>>
  ELSE LET n == Len(s)
       IN InsertSorted(s[n], SortDesc(SubSeq(s, 1, n - 1)))

\* probsArr.map((p, i) => ({i, p})).sort((a, b) => b.p - a.p).slice(0, 3)
\*   .map(x => ({index, letter: String.fromCharCode(65 + x.i), p}))
\* Probabilities are in percent; letter is the character code.
\* The ranking with slice(0, 2).
TopK_Two(probs) ==
  LET pairs  == [k \in 1..Len(probs) |-> [i |-> k - 1, p |-> probs[k]]]
      sorted == SortDesc(pairs)
      cut    == SubSeq(sorted, 1, IF Len(sorted) < 2 THEN Len(sorted) ELSE 2)
  IN [k \in 1..Len(cut) |->
        [index |-> cut[k].i, letter |-> 65 + cut[k].i, p |-> cut[k].p]]

TopK(probs) ==
  LET pairs  == [k \in 1..Len(probs) |-> [i |-> k - 1, p |-> probs[k]]]
      sorted == SortDesc(pairs)
      cut    == SubSeq(sorted, 1, IF Len(sorted) < 3 THEN Len(sorted) ELSE 3)
  IN [k \in 1..Len(cut) |->
        [index |-> cut[k].i, letter |-> 65 + cut[k].i, p |-> cut[k].p]]

\* Output vectors the loaded model can return (percent per class).
ProbVectors == {<<10, 70, 5, 15>>, <<30, 30, 40>>, <<100>>}

\* ---------------------------------------------------------------- startCamera
\* startCamera without its guard.
AlreadyRunning_Never == FALSE

\* `if (running) return;`
AlreadyRunning == running

\* startCamera() up to `await navigator.mediaDevices.getUserMedia(...)`.
startCamera ==
  /\ mounted
  /\ AlreadyRunning \/ Pending < MaxPending
  /\ IF AlreadyRunning
       THEN /\ starts' = starts
            /\ last' = "start.noop"
       ELSE /\ starts' = WithCall(starts,
                 [phase |-> "gum", c |-> Closure, aborted |-> FALSE])
            /\ last' = "start.call"
  /\ sinceStop' = FALSE
  /\ UNCHANGED <<reactState, rafRef, rafQueue, video, liveStreams, loads,
                 canvases, pipeline>>
  /\ UNCHANGED <<units, mounted>>

\* getUserMedia() resolved with a new stream: srcObject = s, setStream(s),
\* up to `await videoRef.current.play()`. After unmount videoRef.current
\* is null: the assignment throws, the catch block's setErrMsg has no
\* effect on the unmounted component, and the stream is left as acquired.
getUserMediaResolved(call) ==
  /\ call.phase = "gum"
  /\ FreeStreams # {}
  /\ LET s == Min(FreeStreams)
     IN /\ liveStreams' = liveStreams \cup {s}
        /\ IF mounted
             THEN /\ video' = [srcObject |-> s, paused |-> FALSE,
                               ready |-> FALSE]
                  /\ stream' = s
                  /\ starts' = WithCall(WithoutCall(AbortPlays, call),
                                         [call EXCEPT !.phase = "play"])
                  /\ last' = "gum.ok"
             ELSE /\ starts' = WithoutCall(starts, call)
                  /\ last' = "gum.orphan"
                  /\ UNCHANGED <<video, stream>>
  /\ UNCHANGED <<model, running, preds, errMsg, rafRef, rafQueue, loads,
                 canvases, pipeline, sinceStop>>
  /\ UNCHANGED <<units, mounted>>

\* What setErrMsg(msg) and setModel(m) leave in the state: a state update
\* of an unmounted component is dropped.
SetErrMsg(msg) == IF mounted THEN msg ELSE errMsg
SetModel(m) == IF mounted THEN m ELSE model

\* getUserMedia() rejected: catch (e) { setErrMsg(String(e)) }.
getUserMediaRejected(call) ==
  /\ call.phase = "gum"
  /\ errMsg' = SetErrMsg("camera")
  /\ starts' = WithoutCall(starts, call)
  /\ last' = "gum.fail"
  /\ UNCHANGED <<model, running, preds, stream, rafRef, rafQueue, video,
                 liveStreams, loads, canvases, pipeline, sinceStop>>
  /\ UNCHANGED <<units, mounted>>

\* The first requestAnimationFrame made without looking at rafRef.
RafIdle_Always == TRUE

\* `if (!rafRef.current)`
RafIdle == rafRef = NULL

\* play() resolved: setRunning(true) and the first requestAnimationFrame.
playResolved(call) ==
  /\ call.phase = "play"
  /\ ~call.aborted
  /\ video.ready
  /\ running' = TRUE
  /\ starts' = WithoutCall(starts, call)
  /\ IF RafIdle
       THEN /\ rafRef' = FreshRaf
            /\ rafQueue' = RequestFrame(FreshRaf, call.c)
            /\ last' = "play.sched"
       ELSE /\ UNCHANGED <<rafRef, rafQueue>>
            /\ last' = "play.kept"
  /\ UNCHANGED <<model, preds, errMsg, stream, video, liveStreams, loads,
                 canvases, pipeline, sinceStop>>
  /\ UNCHANGED <<units, mounted>>

\* play() rejected: catch (e) { setErrMsg(String(e)) }.
playRejected(call) ==
  /\ call.phase = "play"
  /\ errMsg' = SetErrMsg("camera")
  /\ starts' = WithoutCall(starts, call)
  /\ last' = "play.fail"
  /\ UNCHANGED <<model, running, preds, stream, rafRef, rafQueue, video,
                 liveStreams, loads, canvases, pipeline, sinceStop>>
  /\ UNCHANGED <<units, mounted>>

\* The video element decoded a frame of its live stream: readyState >= 2.
frameArrives ==
  /\ video.srcObject # NULL
  /\ video.srcObject \in liveStreams
  /\ ~video.ready
  /\ video' = [video EXCEPT !.ready = TRUE]
  /\ last' = "frame"
  /\ UNCHANGED <<reactState, rafRef, rafQueue, liveStreams, starts, loads,
                 canvases, pipeline, sinceStop>>
  /\ UNCHANGED <<units, mounted>>

\* ---------------------------------------------------------------- stopCamera
stopCamera ==
  /\ mounted
  /\ running' = FALSE
  /\ rafQueue' = IF rafRef # NULL THEN CancelFrame(rafRef) ELSE rafQueue
  /\ rafRef' = NULL
  /\ liveStreams' = IF stream # NULL THEN liveStreams \ {stream}
                                     ELSE liveStreams
  /\ stream' = NULL
  /\ video' = [srcObject |-> NULL, paused |-> TRUE, ready |-> FALSE]
  /\ starts' = AbortPlays
  /\ sinceStop' = TRUE
  /\ last' = "stop"
  /\ UNCHANGED <<model, preds, errMsg, loads, canvases, pipeline>>
  /\ UNCHANGED <<units, mounted>>

\* ---------------------------------------------------------------- unmount
\* The `stream` the cleanup tests: the effect has no dependencies, so its
\* cleanup is the one created by the first render, where stream is null.
CleanupStream == NULL

\* The cleanup of the mount effect. Whether videoRef.current is still
\* attached when it runs depends on the React version (passive cleanups run
\* after the refs are detached, synchronous ones before); removing the
\* element from the document pauses it either way, which rejects the
\* pending play() promises.
unmount ==
  /\ mounted
  /\ mounted' = FALSE
  /\ rafQueue' = IF rafRef # NULL THEN CancelFrame(rafRef) ELSE rafQueue
  /\ rafRef' = NULL
  /\ liveStreams' = IF CleanupStream # NULL
                       THEN liveStreams \ {CleanupStream}
                       ELSE liveStreams
  /\ \E attached \in BOOLEAN :
       video' = IF attached
                  THEN [srcObject |-> NULL, paused |-> TRUE, ready |-> FALSE]
                  ELSE [video EXCEPT !.paused = TRUE]
  /\ starts' = AbortPlays
  /\ last' = "unmount"
  /\ UNCHANGED <<reactState, loads, canvases, pipeline, sinceStop, units>>

\* ---------------------------------------------------------------- predictLoop
\* predictLoop without its liveness check.
LoopStopped_Never(c) == FALSE

\* predictLoop testing the committed running flag instead of the captured one.
LoopStopped_Live(c) == ~running

\* `if (!running)`, with the running of the render that created the callback.
LoopStopped(c) == ~c.running

\* `if (!model || !videoRef.current || videoRef.current.readyState < 2)`,
\* with the model of the render that created the callback.
NotReady(c) == c.model = NoModel \/ ~video.ready

\* The handle requestAnimationFrame returns when callback h reschedules.
NextRaf(h) ==
  LET used == {g.id : g \in rafQueue \ {h}}
  IN Min((1..(Cardinality(used) + 1)) \ used)

\* The animation-frame callback h runs predictLoop up to its first await.
\* Drawing or building the tensor can throw (the exception leaves the
\* callback), model.predict can throw (caught), or the iteration suspends
\* at `await tensorOut.data()` holding the input and the output tensor.
predictLoop(h) ==
  /\ h \in rafQueue
  /\ IF LoopStopped(h.c)
       THEN /\ rafRef' = NULL
            /\ rafQueue' = rafQueue \ {h}
            /\ last' = "raf.return"
            /\ UNCHANGED <<errMsg, canvases, pipeline>>
       ELSE IF NotReady(h.c)
       THEN /\ rafRef' = NextRaf(h)
            /\ rafQueue' = (rafQueue \ {h}) \cup
                             {[id |-> NextRaf(h), c |-> h.c]}
            /\ last' = "raf.idle"
            /\ UNCHANGED <<errMsg, canvases, pipeline>>
       ELSE \E outcome \in {"drawThrows", "predictThrows", "awaits"} :
              IF outcome = "drawThrows"
                THEN /\ rafQueue' = rafQueue \ {h}
                     /\ last' = "raf.drawThrew"
                     /\ UNCHANGED <<rafRef, errMsg, canvases, pipeline>>
              ELSE IF outcome = "predictThrows"
                THEN /\ smallCanvas' = video.srcObject
                     /\ previewCanvas' = video.srcObject
                     /\ errMsg' = "predict"
                     /\ rafRef' = NextRaf(h)
                     /\ rafQueue' = (rafQueue \ {h}) \cup
                                      {[id |-> NextRaf(h), c |-> h.c]}
                     /\ last' = "raf.predictThrew"
                     /\ UNCHANGED pipeline
              ELSE   /\ smallCanvas' = video.srcObject
                     /\ previewCanvas' = video.srcObject
                     /\ inflight' = inflight \cup {[id |-> h.id, c |-> h.c]}
                     /\ tensors' = tensors + 2
                     /\ rafQueue' = rafQueue \ {h}
                     /\ last' = "raf.await"
                     /\ UNCHANGED <<rafRef, errMsg>>
  /\ UNCHANGED <<model, running, preds, stream, video, liveStreams, starts,
                 loads, sinceStop>>
  /\ UNCHANGED <<units, mounted>>

\* The suspended iteration i resumes after `await tensorOut.data()`: it
\* publishes the ranking and disposes the output, or catches the rejection;
\* then disposes the input tensor and requests the next frame.
predictLoopResume(i) ==
  /\ i \in inflight
  /\ \E outcome \in {"data", "rejects"} :
       IF outcome = "data"
         THEN /\ \E probs \in ProbVectors : preds' = TopK(probs)
              /\ last' = "raf.published"
              /\ UNCHANGED errMsg
         ELSE /\ errMsg' = "predict"
              /\ last' = "raf.dataRejected"
              /\ UNCHANGED preds
  /\ tensors' = tensors - 2
  /\ inflight' = inflight \ {i}
  /\ LET used == {g.id : g \in rafQueue}
         id == Min((1..(Cardinality(used) + 1)) \ used)
     IN /\ rafRef' = id
        /\ rafQueue' = RequestFrame(id, i.c)
  /\ UNCHANGED <<model, running, stream, video, liveStreams, starts, loads,
                 canvases, sinceStop>>
  /\ UNCHANGED <<units, mounted>>

\* ---------------------------------------------------------------- model loads
\* tf.loadLayersModel() resolved: setModel(m). The mount load tests
\* `cancelled`, which only the unmount cleanup sets.
loadResolved(l) ==
  /\ l \in DOMAIN loads
  /\ model' = SetModel(l.handle)
  /\ loads' = loads (-) SetToBag({l})
  /\ last' = "load.ok"
  /\ UNCHANGED <<running, preds, errMsg, stream, rafRef, rafQueue, video,
                 liveStreams, starts, canvases, pipeline, sinceStop>>
  /\ UNCHANGED <<units, mounted>>

\* tf.loadLayersModel() rejected: setErrMsg(err.message || String(err)).
loadRejected(l) ==
  /\ l \in DOMAIN loads
  /\ errMsg' = SetErrMsg("load")
  /\ loads' = loads (-) SetToBag({l})
  /\ last' = "load.fail"
  /\ UNCHANGED <<model, running, preds, stream, rafRef, rafQueue, video,
                 liveStreams, starts, canvases, pipeline, sinceStop>>
  /\ UNCHANGED <<units, mounted>>

\* What the handles held before a new load is requested become.
OlderLoad(l) == [l EXCEPT !.handle = Older(@)]
OlderCall(s) == [s EXCEPT !.c.model = Older(@)]

\* retryLoad(): setModel(null), setErrMsg(null) and a new load.
retryLoad ==
  /\ mounted
  /\ Pending < MaxPending
  /\ model' = NoModel
  /\ errMsg' = "none"
  /\ loads' = BagMap(loads, [l \in DOMAIN loads |-> OlderLoad(l)]) (+)
                 SetToBag({[handle |-> "latest", kind |-> "retry"]})
  /\ starts' = BagMap(starts, [s \in DOMAIN starts |-> OlderCall(s)])
  /\ rafQueue' = {OlderCall(h) : h \in rafQueue}
  /\ inflight' = {OlderCall(i) : i \in inflight}
  /\ last' = "retry"
  /\ UNCHANGED <<running, preds, stream, rafRef, video, liveStreams,
                 canvases, tensors, sinceStop>>
  /\ UNCHANGED <<units, mounted>>

\* ---------------------------------------------------------------- specification
\* predictLoopResume is not a step of Next: NoIterationPassesGuard below
\* shows that no callback ever gets past `if (!running)`, so no iteration
\* is ever suspended.
Next ==
  \/ startCamera
  \/ \E call \in DOMAIN starts : getUserMediaResolved(call)
  \/ \E call \in DOMAIN starts : getUserMediaRejected(call)
  \/ \E call \in DOMAIN starts : playResolved(call)
  \/ \E call \in DOMAIN starts : playRejected(call)
  \/ frameArrives
  \/ stopCamera
  \/ \E h \in rafQueue : predictLoop(h)
  \/ \E l \in DOMAIN loads : loadResolved(l)
  \/ \E l \in DOMAIN loads : loadRejected(l)
  \/ retryLoad
  \/ unmount

Spec == Init /\ [][Next]_vars

\* ---------------------------------------------------------------- ranking unit
\* The ranking expression of predictLoop applied to every output vector of
\* at most MaxLen classes with probabilities (in percent) from Probabilities.
Probabilities == {5, 10, 15, 70}
ProbInputs == UNION {[1..n -> Probabilities] : n \in 0..MaxLen}

InitRank ==
  /\ Mounted
  /\ probsArr \in ProbInputs
  /\ top = <<>>
  /\ PreprocessorIdle
  /\ ReporterIdle

\* const top = probsArr.map(...).sort(...).slice(0, 3).map(...)
rank ==
  /\ last = "mount"
  /\ top' = TopK(probsArr)
  /\ last' = "rank"
  /\ UNCHANGED <<component, probsArr, preprocessor, reporter>>

SpecRank == InitRank /\ [][rank]_vars

\* ---------------------------------------------------------------- tensor unit
\* The 28x28 canvas (width={28} height={28}).
Size == 28

\* Image data of the canvas: a colour [r, g, b] per cell <<y, x>>; the
\* frames tried are the two-colour chequerboards over three channel values.
Channels == {0, 128, 255}
Colours == [r : Channels, g : Channels, b : Channels]
Cells == (1..Size) \X (1..Size)
Chequered(c1, c2) == [c \in Cells |-> IF (c[1] + c[2]) % 2 = 0 THEN c1 ELSE c2]
PixelInputs == {Chequered(c1, c2) : c1 \in Colours, c2 \in Colours}

\* A tensor is [shape, data]; float values are kept exact as num / den.
\* tf.browser.fromPixels(small): three channels, the alpha channel dropped.
FromPixels(img) ==
  [shape |-> <<Size, Size, 3>>,
   data  |-> [c \in Cells |-> <<img[c].r, img[c].g, img[c].b>>]]

\* tf.image.rgbToGrayscale: the last axis reduced with the weights
\* 0.2989, 0.5870, 0.1140.
RgbToGrayscale(t) ==
  [shape |-> SubSeq(t.shape, 1, Len(t.shape) - 1) \o <<1>>,
   data  |-> [c \in DOMAIN t.data |->
                [num |-> 2989 * t.data[c][1] + 5870 * t.data[c][2]
                           + 1140 * t.data[c][3],
                 den |-> 10000]]]

\* .squeeze(): the axes of length 1 removed.
Squeeze(t) == [t EXCEPT !.shape = SelectSeq(@, LAMBDA d : d # 1)]

\* The tensor left undivided.
Div_Skipped(t, d) == t

\* .div(255.0)
Div(t, d) ==
  [t EXCEPT !.data = [c \in DOMAIN @ |-> [@[c] EXCEPT !.den = @ * d]]]

\* .expandDims(0) and .expandDims(-1)
ExpandFirst(t) == [t EXCEPT !.shape = <<1>> \o @]
ExpandLast(t) == [t EXCEPT !.shape = @ \o <<1>>]

\* The function handed to tf.tidy: the inversion `t = tf.sub(1, t)` is a
\* comment in the source and there is no setting that enables it.
Preprocess(img) ==
  ExpandLast(ExpandFirst(Div(Squeeze(RgbToGrayscale(FromPixels(img))), 255)))

InitPreprocess ==
  /\ Mounted
  /\ RankerIdle
  /\ pixels \in PixelInputs
  /\ invert \in BOOLEAN
  /\ tensor = [shape |-> <<>>, data |-> <<>>]
  /\ ReporterIdle

\* const tensor = tf.tidy(() => { ... })
tidy ==
  /\ last = "mount"
  /\ tensor' = Preprocess(pixels)
  /\ last' = "tidy"
  /\ UNCHANGED <<component, ranker, pixels, invert, reporter>>

SpecPreprocess == InitPreprocess /\ [][tidy]_vars

\* ---------------------------------------------------------------- feedback unit
\* sendCorrection (part_001) and the handler of /api/log-example (part_002).
\* A request in flight is [origin, method, label, phase, status, body,
\* responses, logged]: phase "request" until the handler has answered, then
\* "response"; responses counts the res.json() calls made for it and logged
\* tells whether the handler logged its label.
Labels == {65, 66}
Methods == {"GET", "POST"}
Sent == Len(alerts) + BagCardinality(fetches)

\* sendCorrection(label) up to `await fetch("/api/log-example", ...)`.
sendCorrection(label) ==
  /\ Sent < MaxFeedback
  /\ fetches' = WithCall(fetches,
       [origin |-> "sendCorrection", method |-> "POST", label |-> label,
        phase |-> "request", status |-> 0, body |-> "none",
        responses |-> 0, logged |-> FALSE])
  /\ last' = "send"
  /\ UNCHANGED <<component, ranker, preprocessor, alerts>>

\* Some other client requests /api/log-example.
otherRequest(method) ==
  /\ Sent < MaxFeedback
  /\ fetches' = WithCall(fetches,
       [origin |-> "other", method |-> method, label |-> 0,
        phase |-> "request", status |-> 0, body |-> "none",
        responses |-> 0, logged |-> FALSE])
  /\ last' = "request"
  /\ UNCHANGED <<component, ranker, preprocessor, alerts>>

\* The handler without its test of req.method.
WrongMethod_Never(req) == FALSE

\* `if (req.method !== "POST")`
WrongMethod(req) == req.method # "POST"

\* handler(req, res): 405 for a method other than POST, otherwise the label
\* is logged and the answer is 200 {ok: true}, or 500 when reading the body
\* or logging throws. Every path returns at its first res.json().
handler(req) ==
  /\ req.phase = "request"
  /\ \E throws \in BOOLEAN :
       LET res == IF WrongMethod(req)
                    THEN [status |-> 405, body |-> "Only POST", logged |-> FALSE]
                  ELSE IF throws
                    THEN [status |-> 500, body |-> "server error",
                          logged |-> FALSE]
                  ELSE [status |-> 200, body |-> "ok", logged |-> TRUE]
       IN fetches' = WithCall(WithoutCall(fetches, req),
            [req EXCEPT !.phase = "response", !.status = res.status,
                        !.body = res.body, !.logged = res.logged,
                        !.responses = @ + 1])
  /\ last' = "handler"
  /\ UNCHANGED <<component, ranker, preprocessor, alerts>>

\* fetch() resolved with the response, whatever its status:
\* alert("Thanks - example submitted.").
fetchResolved(f) ==
  /\ f.origin = "sendCorrection"
  /\ f.phase = "response"
  /\ fetches' = WithoutCall(fetches, f)
  /\ alerts' = Append(alerts, [msg |-> "thanks", status |-> f.status])
  /\ last' = "fetch.ok"
  /\ UNCHANGED <<component, ranker, preprocessor>>

\* fetch() rejected (network error): alert("Failed to send example.").
fetchRejected(f) ==
  /\ f.origin = "sendCorrection"
  /\ fetches' = WithoutCall(fetches, f)
  /\ alerts' = Append(alerts, [msg |-> "failed", status |-> 0])
  /\ last' = "fetch.fail"
  /\ UNCHANGED <<component, ranker, preprocessor>>

\* The other client received its response.
otherAnswered(f) ==
  /\ f.origin = "other"
  /\ f.phase = "response"
  /\ fetches' = WithoutCall(fetches, f)
  /\ last' = "answered"
  /\ UNCHANGED <<component, ranker, preprocessor, alerts>>

NextFeedback ==
  \/ \E label \in Labels : sendCorrection(label)
  \/ \E method \in Methods : otherRequest(method)
  \/ \E req \in DOMAIN fetches : handler(req)
  \/ \E f \in DOMAIN fetches : fetchResolved(f)
  \/ \E f \in DOMAIN fetches : fetchRejected(f)
  \/ \E f \in DOMAIN fetches : otherAnswered(f)

SpecFeedback == Init /\ [][NextFeedback]_vars

TypeOK ==
  /\ model \in {NoModel, "latest", "older"}
  /\ running \in BOOLEAN
  /\ errMsg \in {"none", "load", "camera", "predict"}
  /\ stream \in 0..MaxStreams
  /\ rafRef \in Nat
  /\ liveStreams \subseteq 1..MaxStreams
  /\ mounted => video.srcObject = stream

\* Every callback handed to requestAnimationFrame captured running = FALSE.
NoIterationPassesGuard ==
  /\ \A h \in rafQueue : ~h.c.running
  /\ \A s \in DOMAIN starts : ~s.c.running
  /\ inflight = {}

\* ---------------------------------------------------------------- claims
\* Everything but the two history variables.
program == <<model, running, preds, errMsg, stream, rafRef, rafQueue, video,
             liveStreams, starts, loads, smallCanvas, previewCanvas,
             inflight, tensors, mounted>>

\* A load started by retryLoad() has not settled.
ReloadInFlight == \E l \in DOMAIN loads : l.kind = "retry"

\* The controller is Idle: not running and no start() in progress.
Idle == ~running /\ starts = EmptyBag

\* The step is an animation-frame callback running predictLoop.
IterationStep == \E h \in rafQueue : predictLoop(h)

\* The iteration of this step called model.predict.
InferCalled == last' \in {"raf.predictThrew", "raf.await"}

\* C1: once stop() has returned and until start() is called again, an
\* animation-frame callback that runs draws nothing, builds no tensor, runs
\* no inference, publishes nothing and requests no further frame.
C1_NoWorkAfterStop ==
  [][(sinceStop /\ IterationStep) =>
       /\ rafQueue' \subseteq rafQueue
       /\ ~InferCalled
       /\ UNCHANGED <<smallCanvas, previewCanvas, inflight, tensors, preds>>]_vars

\* A callback ran after stop() with no start() call in between (it was
\* requested by a start() that was still awaiting the camera at stop()).
C1_Witness == sinceStop /\ last = "raf.return"

\* C3: at most one loop iteration is scheduled or suspended at any time.
C3_AtMostOneIteration == Cardinality(rafQueue) + Cardinality(inflight) <= 1

\* A second start() completed while the iteration requested by the first
\* was still pending, and requested none.
C3_Witness == last = "play.kept" /\ Cardinality(rafQueue) = 1

\* C4: while running with a frame ready and the model handle that was
\* already present when start() was called, the iteration that runs at a
\* display refresh runs the inference.
C4_RunningIterationInfers ==
  [][\A h \in rafQueue :
       (running /\ model # NoModel /\ h.c.model = model /\ video.ready
          /\ predictLoop(h)) => InferCalled]_vars

\* C5: start() called while running changes nothing: no camera request, no
\* frame request, and the React state untouched.
C5_StartWhileRunningNoop ==
  [][(running /\ startCamera) => UNCHANGED program]_vars

\* start() was called while running.
C5_Witness == running /\ last = "start.noop"

\* C6: when getUserMedia() or play() fails in start(), the controller is
\* Idle afterwards: not running, no iteration scheduled, the error shown.
C6_FailedStartReturnsToIdle ==
  [][(\E call \in DOMAIN starts :
        getUserMediaRejected(call) \/ playRejected(call)) =>
       (~running' /\ rafQueue' = {} /\ errMsg' = "camera")]_vars

\* C7: stop() called while running leaves the controller not running, no
\* callback queued, no acquired stream with live tracks and the video
\* element detached.
C7_StopReleasesCamera ==
  [][(running /\ stopCamera) =>
       /\ ~running'
       /\ rafRef' = NULL /\ rafQueue' = {}
       /\ stream' = NULL /\ liveStreams' = {}
       /\ video'.srcObject = NULL]_vars

\* C8: a stop() right after a stop(), and a stop() while Idle, change
\* nothing.
C8_StopIdempotent ==
  [][(stopCamera /\ (last = "stop" \/ Idle)) => UNCHANGED program]_vars

\* C9: with the model load failed, an iteration that runs while running
\* and finds a ready frame draws it on both canvases, and the Prediction
\* Set stays empty.
C9_PreviewWithoutModel ==
  [][(running /\ model = NoModel /\ loads = EmptyBag /\ video.ready
        /\ IterationStep) =>
       /\ smallCanvas' = video.srcObject
       /\ previewCanvas' = video.srcObject
       /\ preds' = <<>>]_vars

\* C10: an iteration that runs while a load started by retryLoad() has not
\* settled does not call model.predict.
C10_NoInferDuringReload ==
  [][(ReloadInFlight /\ IterationStep) => ~InferCalled]_vars

\* A callback ran while a reload was in flight.
C10_Witness == ReloadInFlight /\ last = "raf.return"

\* The class indices of a ranking.
Indices(r) == {r[k].index : k \in 1..Len(r)}

\* Entry a ranks before entry b: higher probability, or the same
\* probability and the lower class index.
Before(a, b) == a.p > b.p \/ (a.p = b.p /\ a.index < b.index)

\* C14: the ranking holds entries of the vector, each labelled with the
\* character code 65 + index, in descending order of probability and, among
\* equal probabilities, ascending class index; every entry left out ranks
\* after every entry kept; [0.1, 0.7, 0.05, 0.15] starts with (1, 'B', 0.7),
\* (3, 'D', 0.15).
C14_RankingOrder ==
  last = "rank" =>
    /\ \A k \in 1..Len(top) :
         /\ top[k].index \in 0..(Len(probsArr) - 1)
         /\ top[k].p = probsArr[top[k].index + 1]
         /\ top[k].letter = 65 + top[k].index
    /\ \A j, k \in 1..Len(top) : j < k => Before(top[j], top[k])
    /\ \A i \in (0..(Len(probsArr) - 1)) \ Indices(top) :
         \A k \in 1..Len(top) :
           Before(top[k], [index |-> i, p |-> probsArr[i + 1]])
    /\ probsArr = <<10, 70, 5, 15>> =>
         SubSeq(top, 1, 2) = <<[index |-> 1, letter |-> 66, p |-> 70],
                               [index |-> 3, letter |-> 68, p |-> 15]>>

\* A vector with its maximum at the indices 2 and 5 was ranked.
C14_Witness ==
  /\ last = "rank"
  /\ probsArr = <<5, 10, 70, 15, 5, 70>>
  /\ top[1].index = 2
  /\ top[2].index = 5

\* C15: the ranking is computed for every vector, the empty one included;
\* a vector of fewer than 3 entries gives all of its entries, any other
\* vector exactly 3.
C15_RankingLength ==
  last = "rank" =>
    IF Len(probsArr) < 3
      THEN /\ Len(top) = Len(probsArr)
           /\ Indices(top) = 0..(Len(probsArr) - 1)
      ELSE Len(top) = 3

\* A vector of two entries was ranked.
C15_Witness ==
  /\ last = "rank"
  /\ Len(probsArr) = 2
  /\ Len(top) = 2

\* The grayscale reduction of a colour: 0.2989 r + 0.5870 g + 0.1140 b,
\* in ten-thousandths; divided by 255 it is Gray(c) / (10000 * 255).
Gray(c) == 2989 * c.r + 5870 * c.g + 1140 * c.b

\* C16: the tensor handed to the model has shape [1, 28, 28, 1] and one
\* value per cell of the 28x28 canvas, each the grayscale reduction of
\* the cell's colour divided by 255, which lies in [0, 1].
C16_TileShapeAndRange ==
  last = "tidy" =>
    /\ tensor.shape = <<1, 28, 28, 1>>
    /\ DOMAIN tensor.data = (1..28) \X (1..28)
    /\ \A c \in DOMAIN tensor.data :
         LET v == tensor.data[c]
         IN /\ v.den = 10000 * 255
            /\ v.num = Gray(pixels[c])
            /\ 0 <= v.num /\ v.num <= v.den

\* A frame with white cells next to black cells was preprocessed.
C16_Witness ==
  /\ last = "tidy"
  /\ pixels[<<1, 1>>] = [r |-> 255, g |-> 255, b |-> 255]
  /\ pixels[<<1, 2>>] = [r |-> 0, g |-> 0, b |-> 0]
  /\ tensor.data[<<1, 1>>].num > tensor.data[<<1, 2>>].num

\* C17: when the caller wants the tile inverted, every value of the tensor
\* is 1 minus the value computed for the same frame without inversion.
C17_InvertComplements ==
  (last = "tidy" /\ invert) =>
    \A c \in DOMAIN tensor.data :
      LET v == tensor.data[c]
      IN /\ v.den = 10000 * 255
         /\ v.num = 10000 * 255 - Gray(pixels[c])

\* C18: the success message is shown only for a submission the endpoint
\* answered with success (200); a submission that failed, by a network
\* error or by a failure response, shows the failure message.
C18_SuccessOnlyOnSuccess ==
  \A k \in 1..Len(alerts) :
    IF alerts[k].status = 200 THEN alerts[k].msg = "thanks"
                              ELSE alerts[k].msg = "failed"

\* C20: an iteration that runs while running and finds no frame ready
\* draws nothing, builds no tensor, runs no inference, leaves the
\* predictions and the error message as they are, and leaves exactly one
\* callback requested.
C20_NotReadyReschedules ==
  [][(running /\ ~video.ready /\ IterationStep) =>
       /\ UNCHANGED <<smallCanvas, previewCanvas, inflight, tensors, preds,
                      errMsg>>
       /\ ~InferCalled
       /\ Cardinality(rafQueue') = 1]_vars

\* C23: a request answered by the handler got exactly one response: 405
\* "Only POST" with nothing logged when its method is not POST, and for a
\* POST either 200 {ok: true} or 500 "server error"; a request not yet
\* handled got none.
C23_EndpointAnswers ==
  \A f \in DOMAIN fetches :
    IF f.phase = "request" THEN f.responses = 0
    ELSE /\ f.responses = 1
         /\ IF f.method # "POST"
              THEN f.status = 405 /\ f.body = "Only POST" /\ ~f.logged
              ELSE \/ f.status = 200 /\ f.body = "ok"
                   \/ f.status = 500 /\ f.body = "server error"

\* A GET and a POST have both been answered.
C23_Witness ==
  /\ \E f \in DOMAIN fetches : f.method = "GET" /\ f.phase = "response"
  /\ \E f \in DOMAIN fetches : f.method = "POST" /\ f.phase = "response"

\* C24: while the controller is Idle and no start() is in progress, no
\* acquired camera stream has live tracks.
C24_IdleHoldsNoStream == Idle => liveStreams = {}

\* C25: once every load has settled, the handle is not the result of a
\* load requested before the latest one, and no load error is displayed
\* beside a handle.
C25_LatestLoadWins ==
  loads = EmptyBag =>
    /\ model \in {NoModel, "latest"}
    /\ errMsg = "load" => model = NoModel

\* The predictions are well formed: at most 3, ordered by descending
\* probability, distinct indices, letter code 65 + index.
WellFormed(r) ==
  /\ Len(r) <= 3
  /\ \A j, k \in 1..Len(r) :
       j < k => r[j].index # r[k].index /\ r[j].p >= r[k].p
  /\ \A k \in 1..Len(r) : r[k].letter = 65 + r[k].index

C22_UnmountReleases ==
  [][(running /\ unmount) =>
       (rafQueue' = {} /\ stream \notin liveStreams')]_vars

====
